---- MODULE Spec2Model ----
(***************************************************************************)
(* Model of youtube_summarize: the CLI (cli.py), the model gateway         *)
(* (gemini.py), preset loading (presets.py) and the web handlers           *)
(* (webapp.py).                                                            *)
(*                                                                         *)
(* Video references are sequences of one-character strings, so that strip, *)
(* startswith, urlparse and parse_qs are computed character by character.  *)
(* Their alphabet has no "%", ";", tab or newline: percent-decoding, path  *)
(* parameters and urlsplit's removal of tab/newline never act on it.       *)
(* Prompt texts are sequences whose elements are either one whitespace     *)
(* character or a chunk of text that neither starts nor ends with          *)
(* whitespace, so that strip acts on them as it does on the text.          *)
(* JSON texts are named documents; json_loads gives what json.loads        *)
(* returns on each.                                                        *)
(***************************************************************************)
EXTENDS Integers, Sequences, FiniteSets, TLC

\* ------------------------------------------------------------------------
\* String helpers (Python str methods)
\* ------------------------------------------------------------------------
\* Python None where a path or a document is expected
None == "None"

\* Python None where a text (a sequence) is expected
NoneText == <<None>>

Whitespace == {" ", "\n"}

MinOf(S) == CHOOSE i \in S : \A j \in S : i <= j

MaxOf(S) == CHOOSE i \in S : \A j \in S : j <= i

Drop(s, n) == SubSeq(s, n + 1, Len(s))

Take(s, n) == SubSeq(s, 1, n)

\* str.strip(): removes leading and trailing whitespace
Strip(s) ==
    LET I == {i \in 1..Len(s) : s[i] \notin Whitespace}
    IN IF I = {} THEN <<>> ELSE SubSeq(s, MinOf(I), MaxOf(I))

\* str.startswith(p)
StartsWith(s, p) == Len(s) >= Len(p) /\ Take(s, Len(p)) = p

\* str.lstrip("/")
LStripSlash(s) ==
    LET I == {i \in 1..Len(s) : s[i] # "/"}
    IN IF I = {} THEN <<>> ELSE Drop(s, MinOf(I) - 1)

\* index of the first character of s that is in D, Len(s)+1 when there is none
FirstIn(s, D) ==
    LET I == {i \in 1..Len(s) : s[i] \in D}
    IN IF I = {} THEN Len(s) + 1 ELSE MinOf(I)

RECURSIVE SplitOn(_, _)
\* str.split(d) for a one-character separator d
SplitOn(s, d) ==
    LET k == FirstIn(s, {d})
    IN IF k > Len(s) THEN <<s>>
       ELSE <<Take(s, k - 1)>> \o SplitOn(Drop(s, k), d)

RECURSIVE Concat(_)
Concat(ss) == IF ss = <<>> THEN <<>> ELSE Head(ss) \o Concat(Tail(ss))

\* ------------------------------------------------------------------------
\* String literals of the source
\* ------------------------------------------------------------------------
HTTP == <<"h","t","t","p",":","/","/">>

HTTPS == <<"h","t","t","p","s",":","/","/">>

YOUTU_BE == <<"y","o","u","t","u",".","b","e">>

WWW == <<"w","w","w",".">>

YOUTUBE_COM == <<"y","o","u","t","u","b","e",".","c","o","m">>

EXAMPLE_COM == <<"e","x",".","c","o","m">>

ShortHosts == {YOUTU_BE, WWW \o YOUTU_BE}

CanonicalHosts == {WWW \o YOUTUBE_COM, YOUTUBE_COM}

\* "https://www.youtube.com/watch?v="
WatchPrefix == HTTPS \o WWW \o YOUTUBE_COM \o <<"/","w","a","t","c","h","?","v","=">>

\* ------------------------------------------------------------------------
\* urllib.parse as the source uses it
\* ------------------------------------------------------------------------
\* urlparse(raw) for a raw that starts with http:// or https://
urlparse(raw) ==
    LET rest  == IF StartsWith(raw, HTTPS) THEN Drop(raw, Len(HTTPS)) ELSE Drop(raw, Len(HTTP))
        n     == FirstIn(rest, {"/", "?", "#"})
        after == Drop(rest, n - 1)
        h     == FirstIn(after, {"#"})
        nofrag == Take(after, h - 1)
        q     == FirstIn(nofrag, {"?"})
    IN [netloc |-> Take(rest, n - 1),
        path   |-> Take(nofrag, q - 1),
        query  |-> Drop(nofrag, q)]

\* unquote after replace("+", " "), on an alphabet without "%"
PlusDecode(s) == [i \in 1..Len(s) |-> IF s[i] = "+" THEN " " ELSE s[i]]

RECURSIVE QslPairs(_)
\* parse_qsl over the "&"-separated fields: blank values are dropped
QslPairs(fields) ==
    IF fields = <<>> THEN <<>>
    ELSE LET nv == Head(fields)
             e  == FirstIn(nv, {"="})
         IN IF nv = <<>> \/ e > Len(nv) \/ e = Len(nv)
            THEN QslPairs(Tail(fields))
            ELSE <<[name |-> PlusDecode(Take(nv, e - 1)), value |-> PlusDecode(Drop(nv, e))]>>
                 \o QslPairs(Tail(fields))

\* parse_qs(query).get("v", [""])[0]
QueryV(query) ==
    LET pairs == IF query = <<>> THEN <<>> ELSE QslPairs(SplitOn(query, "&"))
        I     == {i \in 1..Len(pairs) : pairs[i].name = <<"v">>}
    IN IF I = {} THEN <<>> ELSE pairs[MinOf(I)].value

HasScheme(raw) == StartsWith(raw, HTTP) \/ StartsWith(raw, HTTPS)

normalize_video_url(value) ==
    LET raw == Strip(value)
    IN IF raw = <<>> THEN <<>>
       ELSE IF HasScheme(raw)
       THEN LET parsed == urlparse(raw)
            IN IF parsed.netloc \in ShortHosts
               THEN WatchPrefix \o LStripSlash(parsed.path)
               ELSE IF parsed.netloc \in CanonicalHosts /\ QueryV(parsed.query) # <<>>
               THEN WatchPrefix \o QueryV(parsed.query)
               ELSE raw
       ELSE WatchPrefix \o raw

extract_video_id(value) ==
    LET raw == Strip(value)
    IN IF raw = <<>> THEN <<>>
       ELSE IF HasScheme(raw)
       THEN LET parsed == urlparse(raw)
            IN IF parsed.netloc \in ShortHosts
               THEN LStripSlash(parsed.path)
               ELSE IF parsed.netloc \in CanonicalHosts
               THEN QueryV(parsed.query)
               ELSE raw
       ELSE raw

\* ------------------------------------------------------------------------
\* JSON values (what json.loads returns) and the Python tests on them
\* ------------------------------------------------------------------------
JObj(fields) == [t |-> "object", v |-> fields]

JArr(items) == [t |-> "array", v |-> items]

JStr(s) == [t |-> "string", v |-> s]

\* JSON null, Python None
JNull == [t |-> "null"]

EmptyDict == JObj(<<>>)

\* isinstance(x, dict)
IsDict(j) == j.t = "object"

\* bool(x) for a parsed JSON value
PyTruthy(j) ==
    CASE j.t = "null" -> FALSE
      [] j.t = "object" -> DOMAIN j.v # {}
      [] OTHER -> j.v # <<>>

\* dict.get(key)
Get(j, key) == IF key \in DOMAIN j.v THEN j.v[key] ELSE JNull

\* bool(x) for an optional text
Truthy(s) == s # NoneText /\ s # <<>>

\* bool(x) for an optional path or document
Given(s) == s # None /\ s # ""

\* ------------------------------------------------------------------------
\* Literals of the source
\* ------------------------------------------------------------------------
DEFAULT_PROMPT == <<"Summarize the YouTube video. Return a short summary and a list of keywords.">>

SHARED_VIDEO_PROMPT ==
    <<"You are extracting structured startup case-study facts from a YouTube video.", "\n", "\n",
      "HARD RULES: ... EVIDENCE: ... OUTPUT:", "\n",
      "- Return ONLY valid JSON matching the provided schema.", "\n">>

max_retries == 6

\* cli.py lines 130-134, webapp.py lines 74-81
FallbackSchema ==
    JObj([type |-> JStr(<<"object">>),
          properties |-> JObj([summary |-> JObj([type |-> JStr(<<"string">>)]),
                               keyword |-> JObj([type |-> JStr(<<"array">>),
                                                 items |-> JObj([type |-> JStr(<<"string">>)])])]),
          required |-> JArr(<<JStr(<<"summary">>), JStr(<<"keyword">>)>>)])

\* ------------------------------------------------------------------------
\* Documents of the environment: JSON texts and prompt texts
\* ------------------------------------------------------------------------
InlineSchema == JObj([type |-> JStr(<<"object">>), properties |-> JObj([inline |-> JObj([type |-> JStr(<<"string">>)])])])

FileSchema == JObj([type |-> JStr(<<"object">>), properties |-> JObj([file |-> JObj([type |-> JStr(<<"string">>)])])])

PresetSchema == JObj([type |-> JStr(<<"object">>), properties |-> JObj([preset |-> JObj([type |-> JStr(<<"string">>)])])])

PromptArgText == <<" ", "Prompt given inline.">>

PromptFileText == <<"Prompt read from the prompt file.", "\n">>

SchemaFilePromptText == <<"Prompt stored in the schema file.">>

PresetPromptText == <<"Prompt stored in the default preset.">>

ApiPromptText == <<"Prompt of the request.">>

\* json.loads(text): [ok |-> TRUE, value |-> v], or [ok |-> FALSE] when it raises
\* json.JSONDecodeError
json_loads(text) ==
    CASE text = "inline_schema.json" -> [ok |-> TRUE, value |-> InlineSchema]
      [] text = "file_schema.json" -> [ok |-> TRUE, value |-> FileSchema]
      [] text = "combined.json" ->
            [ok |-> TRUE, value |-> JObj([prompt |-> JStr(SchemaFilePromptText), schema |-> FileSchema])]
      [] text = "combined_no_prompt.json" -> [ok |-> TRUE, value |-> JObj([schema |-> FileSchema])]
      [] text = "preset.json" ->
            [ok |-> TRUE, value |-> JObj([name |-> JStr(<<"Summary">>), prompt |-> JStr(PresetPromptText),
                                          schema |-> PresetSchema])]
      [] text = "preset_no_schema.json" ->
            [ok |-> TRUE, value |-> JObj([name |-> JStr(<<"Summary">>), prompt |-> JStr(PresetPromptText)])]
      [] text = "preset_null_schema.json" ->
            [ok |-> TRUE, value |-> JObj([name |-> JStr(<<"Summary">>), schema |-> JNull])]
      [] text = "array.json" -> [ok |-> TRUE, value |-> JArr(<<JStr(<<"summary">>)>>)]
      [] text = "empty_array.json" -> [ok |-> TRUE, value |-> JArr(<<>>)]
      [] text = "null.json" -> [ok |-> TRUE, value |-> JNull]
      [] text = "result.json" ->
            [ok |-> TRUE, value |-> JObj([summary |-> JStr(<<"s">>), keyword |-> JArr(<<JStr(<<"k">>)>>)])]
      [] OTHER -> [ok |-> FALSE]

\* texts json.loads rejects
CorruptText == "{\"type\": "

NotJsonText == "Sorry, I cannot watch this video."

\* ------------------------------------------------------------------------
\* presets.py
\* ------------------------------------------------------------------------
\* load_preset: [ok |-> TRUE, value |-> v], or [ok |-> FALSE] when it raises
\* (FileNotFoundError for a missing file, JSONDecodeError for a corrupt one)
load_preset(file) ==
    IF file = None THEN [ok |-> FALSE] ELSE json_loads(file)

\* load_preset_safe(DEFAULT_PRESET_ID): the preset, or None on any exception
load_preset_safe(file) ==
    LET r == load_preset(file)
    IN IF r.ok THEN r.value ELSE JNull

\* ------------------------------------------------------------------------
\* cli.py: inputs, schema resolution, prompt resolution
\* ------------------------------------------------------------------------
\* the lines kept by load_inputs: stripped, neither empty nor a "#" comment
RECURSIVE KeptLines(_)
KeptLines(lines) ==
    IF lines = <<>> THEN <<>>
    ELSE LET l == Strip(Head(lines))
         IN IF l # <<>> /\ ~StartsWith(l, <<"#">>)
            THEN <<l>> \o KeptLines(Tail(lines))
            ELSE KeptLines(Tail(lines))

load_inputs(a, f) ==
    IF Given(a.input_file) THEN KeptLines(f.input_file)
    ELSE IF Truthy(a.video_url) THEN <<a.video_url>>
    ELSE <<>>

\* lines 109-112: the SystemExit message, or None when the run goes on
main_precondition_unchecked(a, ins) ==
    IF ins = <<>> THEN "Provide a video URL/ID or --input-file."
    ELSE None

main_precondition(a, ins) ==
    IF ins = <<>> THEN "Provide a video URL/ID or --input-file."
    ELSE IF Given(a.input_file) /\ ~Given(a.outdir) /\ a.out = "-"
    THEN "Batch mode requires --outdir to write results per video."
    ELSE None

Resolved(s, p, r) == [ok |-> TRUE, schema |-> s, preset_prompt |-> p, reads |-> r]

Raised(e, r) == [ok |-> FALSE, error |-> e, reads |-> r]

\* lines 127-134: the default preset, else the hardcoded schema
schema_from_preset(f) ==
    LET loaded == load_preset_safe(f.preset)
        preset == IF PyTruthy(loaded) THEN loaded ELSE EmptyDict
    IN IF ~IsDict(preset) THEN Raised("AttributeError", {"preset"})
       ELSE Resolved(IF PyTruthy(Get(preset, "schema")) THEN Get(preset, "schema") ELSE FallbackSchema,
                     Get(preset, "prompt"), {"preset"})

\* lines 120-126: the schema file, plain or combined with a prompt
schema_from_file(f) ==
    LET r == json_loads(f.schema_file)
    IN IF ~r.ok THEN Raised("JSONDecodeError", {"schema_file"})
       ELSE IF IsDict(r.value) /\ "schema" \in DOMAIN r.value.v
       THEN Resolved(Get(r.value, "schema"), Get(r.value, "prompt"), {"schema_file"})
       ELSE Resolved(r.value, JNull, {"schema_file"})

\* lines 118-119: the inline schema
schema_from_inline(a) ==
    LET r == json_loads(a.schema_json)
    IN IF ~r.ok THEN Raised("JSONDecodeError", {}) ELSE Resolved(r.value, JNull, {})

resolve_schema_file_first(a, f) ==
    IF Given(a.schema) THEN schema_from_file(f)
    ELSE IF Given(a.schema_json) THEN schema_from_inline(a)
    ELSE schema_from_preset(f)

\* lines 117-134
resolve_schema(a, f) ==
    IF Given(a.schema_json) THEN schema_from_inline(a)
    ELSE IF Given(a.schema) THEN schema_from_file(f)
    ELSE schema_from_preset(f)

\* lines 136-145: the stripped base prompt, or the exception str.strip raises on
\* a preset prompt that is no string
resolve_prompt(a, f, preset_prompt) ==
    IF Given(a.prompt_file) THEN [ok |-> TRUE, base_prompt |-> Strip(f.prompt_file), reads |-> {"prompt_file"}]
    ELSE IF Truthy(a.prompt) THEN [ok |-> TRUE, base_prompt |-> Strip(a.prompt), reads |-> {}]
    ELSE IF PyTruthy(preset_prompt)
    THEN IF preset_prompt.t = "string"
         THEN [ok |-> TRUE, base_prompt |-> Strip(preset_prompt.v), reads |-> {}]
         ELSE Raised("AttributeError", {})
    ELSE [ok |-> TRUE, base_prompt |-> Strip(DEFAULT_PROMPT), reads |-> {}]

\* line 145
template_of(base_prompt) ==
    IF base_prompt = SHARED_VIDEO_PROMPT THEN SHARED_VIDEO_PROMPT ELSE base_prompt

MetadataBlock(meta) ==
    <<"\n", "\n", "VIDEO METADATA (use exactly):", "\n", "- video_url: ">> \o meta.video_url
    \o <<"\n", "- title: ">> \o meta.title
    \o <<"\n", "- channel: ">> \o meta.channel
    \o <<"\n", "- upload_date: ">> \o meta.upload_date \o <<"\n", "\n">>

\* cli.py lines 147-157 (main.render_prompt) and webapp.py lines 57-67 (build_prompt)
render_prompt(template, meta) ==
    template \o MetadataBlock(meta)
    \o <<"Return ONLY valid JSON that matches the provided schema.", "\n">>

\* cli.py lines 19-35 (build_prompt): never called by main
build_prompt(meta) ==
    SHARED_VIDEO_PROMPT \o MetadataBlock(meta)
    \o <<"Now extract:", "\n", "- who the person is (if stated) ...", "\n">>

Meta(url) == [video_url |-> url, title |-> <<>>, channel |-> <<>>, upload_date |-> <<>>]

\* line 172
PlaceholderId(n) == <<"v","i","d","e","o","_", ToString(n)>>

video_id_of(url, n) ==
    IF extract_video_id(url) # <<>> THEN extract_video_id(url) ELSE PlaceholderId(n)

\* line 100: int((index / total) * width), width = 24
Filled(index, total) == (index * 24) \div total

\* lines 177-189: where an item's payload goes and whether the loop goes on
sink_never_breaks(a) ==
    IF Given(a.outdir) THEN [to |-> "outdir", go_on |-> TRUE]
    ELSE IF a.out = "-" THEN [to |-> "stdout", go_on |-> TRUE]
    ELSE [to |-> "out", go_on |-> TRUE]

sink(a) ==
    IF Given(a.outdir) THEN [to |-> "outdir", go_on |-> TRUE]
    ELSE IF a.out = "-" THEN [to |-> "stdout", go_on |-> TRUE]
    ELSE [to |-> "out", go_on |-> FALSE]

\* ------------------------------------------------------------------------
\* gemini.py: gemini_json, the retry loop around the model call
\* ------------------------------------------------------------------------
\* the exception raised by the model call of attempt k
ErrorOf(k) == [attempt |-> k]

\* last_err = None: no attempt has failed yet
NoError == [attempt |-> -1]

NoRaise == [type |-> None, cause |-> NoError]

\* lines 26-29, backoff_sleep(attempt, base = 1.0, cap = 20.0), in milliseconds
base == 1000

cap == 20000

\* line 28: the values random.random() gives, in thousandths (it is below 1.0)
Randoms == {0, 999}

\* lines 27-29: the time slept, in milliseconds, when random.random() gives
\* rnd thousandths: min(cap, base * 2**attempt) * (0.7 + rnd/1000 * 0.6)
backoff_sleep(attempt, rnd) ==
    (MinOf({cap, base * 2^attempt}) * (7000 + 6 * rnd)) \div 10000

\* summarize_custom -> gemini_json, lines 40-46: a fresh call; delay is the
\* time the last backoff_sleep took
gemini_json_enter ==
    [pc |-> "calling", attempt |-> 0, last_err |-> NoError, result |-> None, error |-> NoRaise,
     calls |-> 0, fails |-> 0, waits |-> 0, delay |-> 0]

\* line 47: for attempt in range(max_retries)
loop_gives_up_early(g) == g.attempt < max_retries - 1

loop_continues(g) == g.attempt < max_retries

on_success_then_sleeps(g, text) ==
    [g EXCEPT !.pc = "returned", !.result = text, !.calls = @ + 1, !.waits = @ + 1]

\* lines 49-50: the model answers, gemini_json returns resp.text
on_success(g, text) ==
    [g EXCEPT !.pc = "returned", !.result = text, !.calls = @ + 1]

on_failure_keeps_first_error(g) ==
    [g EXCEPT !.last_err = IF @ = NoError THEN ErrorOf(g.attempt) ELSE @, !.attempt = @ + 1,
              !.calls = @ + 1, !.fails = @ + 1, !.waits = @ + 1]

\* lines 51-53: the model call raises; last_err = exc, backoff_sleep(attempt)
on_failure(g) ==
    [g EXCEPT !.last_err = ErrorOf(g.attempt), !.attempt = @ + 1,
              !.calls = @ + 1, !.fails = @ + 1, !.waits = @ + 1]

\* line 55: raise RuntimeError(f"Gemini failed after retries: {last_err!r}")
on_exhausted(g) ==
    [g EXCEPT !.pc = "raised", !.error = [type |-> "RuntimeError", cause |-> g.last_err]]

\* texts the model returns
ModelTexts == {"result.json", NotJsonText}

\* ------------------------------------------------------------------------
\* Runs: command lines, requests and the files they meet
\* ------------------------------------------------------------------------
MaxInputs == 2

BLANK == <<" ">>

ID_A == <<"a">>

SHORT_B == HTTPS \o YOUTU_BE \o <<"/", "b">>

FileLines == {ID_A, <<" ">> \o SHORT_B, <<"#", "a">>}

InputFiles == UNION {[1..n -> FileLines] : n \in 0..MaxInputs}

\* no file is named: the input file, never read, has no lines
NoFiles == [input_file |-> <<>>, schema_file |-> None, prompt_file |-> NoneText, preset |-> "preset.json"]

\* command lines that vary the inputs and the output sink
BatchArgs ==
    [video_url : {NoneText, BLANK, ID_A}, input_file : {None, "inputs.txt"},
     out : {"-", "result.json"}, outdir : {None, "outdir"},
     schema_json : {None, CorruptText, "array.json"}, schema : {None},
     prompt : {NoneText}, prompt_file : {None}]

BatchRuns ==
    {[args |-> a, fs |-> [NoFiles EXCEPT !.input_file = i]] :
        a \in BatchArgs, i \in InputFiles}

\* command lines that vary the schema and prompt sources
ResolveArgs ==
    [video_url : {ID_A}, input_file : {None}, out : {"-"}, outdir : {None},
     schema_json : {None, "inline_schema.json", CorruptText, "array.json"},
     schema : {None, "schema.json"},
     prompt : {NoneText, <<>>, PromptArgText}, prompt_file : {None, "prompt.txt"}]

SchemaFiles == {"file_schema.json", "combined.json", "combined_no_prompt.json", CorruptText}

PresetFiles ==
    {None, CorruptText, "array.json", "empty_array.json", "null.json",
     "preset.json", "preset_no_schema.json", "preset_null_schema.json"}

ResolveRuns ==
    {[args |-> a, fs |-> [input_file |-> <<>>, schema_file |-> s, prompt_file |-> p, preset |-> d]] :
        a \in ResolveArgs, s \in SchemaFiles \cup {None},
        p \in {PromptFileText, SHARED_VIDEO_PROMPT, NoneText}, d \in PresetFiles}

\* a file is there exactly when the command line names it
CliRuns ==
    {r \in BatchRuns \cup ResolveRuns :
        /\ r.args.input_file = None => r.fs.input_file = <<>>
        /\ (r.args.schema = None) = (r.fs.schema_file = None)
        /\ (r.args.prompt_file = None) = (r.fs.prompt_file = NoneText)}

\* JSON bodies of POST /api/summarize
ApiPayloads ==
    [video_input : {NoneText, BLANK, ID_A, SHORT_B}, prompt : {NoneText, ApiPromptText},
     schema : {JNull, InlineSchema, JArr(<<JStr(<<"summary">>)>>)}]

\* forms of POST /summarize
FormPayloads ==
    [video_input : {BLANK, ID_A}, prompt : {ApiPromptText},
     schema_json : {"inline_schema.json", CorruptText, "array.json"}]

VARIABLES mode, args, fs, pc, inputs, idx, resolved, item, gw,
          model_calls, sent, reads, dirs, writes, stdout, progress, outcome,
          nvalue, nonce, ntwice, nid, npc

envvars == <<mode, args, fs>>

runvars == <<pc, inputs, idx, resolved, item, gw>>

histvars == <<model_calls, sent, reads>>

outvars == <<dirs, writes, stdout, progress, outcome>>

nvars == <<nvalue, nonce, ntwice, nid, npc>>

vars == <<envvars, runvars, histvars, outvars, nvars>>

Running == [kind |-> "running", detail |-> None]

SystemExit(msg) == [kind |-> "SystemExit", detail |-> msg]

\* an exception leaves the function: its type, where it was raised, and for the
\* RuntimeError of gemini_json the model error it wraps
Exception(type, at, cause) ==
    [kind |-> "exception", detail |-> [type |-> type, at |-> at, cause |-> cause]]

Returned == [kind |-> "returned", detail |-> None]

JSONResponse(status, body) == [kind |-> "http", detail |-> [status |-> status, body |-> body]]

TemplateResponse(error, result_json) ==
    [kind |-> "html", detail |-> [error |-> error, result_json |-> result_json]]

Unresolved == [schema |-> JNull, preset_prompt |-> JNull, base_prompt |-> NoneText, prompt_template |-> NoneText]

NoItem == [video_url |-> NoneText, video_id |-> NoneText, prompt |-> NoneText]

GwIdle == [gemini_json_enter EXCEPT !.pc = "idle"]

NormIdle ==
    /\ nvalue = NoneText
    /\ nonce = NoneText
    /\ ntwice = NoneText
    /\ nid = NoneText
    /\ npc = "idle"

RunInit ==
    /\ pc = "main"
    /\ inputs = <<>>
    /\ idx = 0
    /\ resolved = Unresolved
    /\ item = NoItem
    /\ gw = GwIdle
    /\ model_calls = 0
    /\ sent = <<>>
    /\ reads = {}
    /\ dirs = {}
    /\ writes = <<>>
    /\ stdout = <<>>
    /\ progress = <<>>
    /\ outcome = Running

Init ==
    /\ \/ /\ mode = "cli"
          /\ \E r \in CliRuns : args = r.args /\ fs = r.fs
       \/ /\ mode = "api"
          /\ args \in ApiPayloads
          /\ fs = NoFiles
       \/ /\ mode = "form"
          /\ args \in FormPayloads
          /\ fs = NoFiles
    /\ RunInit
    /\ NormIdle

\* ------------------------------------------------------------------------
\* cli.py: main
\* ------------------------------------------------------------------------
\* lines 107-112: parse_args, load_inputs and the two preconditions
main_start ==
    /\ mode = "cli" /\ pc = "main"
    /\ LET ins == load_inputs(args, fs)
           msg == main_precondition(args, ins)
       IN /\ inputs' = ins
          /\ reads' = IF Given(args.input_file) THEN reads \cup {"input_file"} ELSE reads
          /\ IF msg # None
             THEN pc' = "exit" /\ outcome' = SystemExit(msg)
             ELSE pc' = "api_key" /\ outcome' = outcome
    /\ UNCHANGED <<envvars, idx, resolved, item, gw, model_calls, sent, dirs, writes, stdout, progress, nvars>>

\* lines 114-115: load_api_key raises RuntimeError when no key is set
main_load_api_key ==
    /\ mode = "cli" /\ pc = "api_key"
    /\ \E has_key \in BOOLEAN :
          IF has_key
          THEN pc' = "schema" /\ outcome' = outcome
          ELSE pc' = "exit" /\ outcome' = Exception("RuntimeError", "load_api_key", NoError)
    /\ UNCHANGED <<envvars, inputs, idx, resolved, item, gw, histvars, dirs, writes, stdout, progress, nvars>>

\* lines 117-134
main_resolve_schema ==
    /\ mode = "cli" /\ pc = "schema"
    /\ LET r == resolve_schema(args, fs)
       IN /\ reads' = reads \cup r.reads
          /\ IF r.ok
             THEN /\ resolved' = [resolved EXCEPT !.schema = r.schema, !.preset_prompt = r.preset_prompt]
                  /\ pc' = "prompt"
                  /\ outcome' = outcome
             ELSE /\ resolved' = resolved
                  /\ pc' = "exit"
                  /\ outcome' = Exception(r.error, "schema", NoError)
    /\ UNCHANGED <<envvars, inputs, idx, item, gw, model_calls, sent, dirs, writes, stdout, progress, nvars>>

\* lines 136-163: the base prompt, the template, the output directory
main_resolve_prompt ==
    /\ mode = "cli" /\ pc = "prompt"
    /\ LET r == resolve_prompt(args, fs, resolved.preset_prompt)
       IN /\ reads' = reads \cup r.reads
          /\ IF r.ok
             THEN /\ resolved' = [resolved EXCEPT !.base_prompt = r.base_prompt,
                                                  !.prompt_template = template_of(r.base_prompt)]
                  /\ dirs' = IF Given(args.outdir) THEN dirs \cup {args.outdir} ELSE dirs
                  /\ idx' = 1
                  /\ pc' = "loop"
                  /\ outcome' = outcome
             ELSE /\ resolved' = resolved
                  /\ dirs' = dirs
                  /\ idx' = idx
                  /\ pc' = "exit"
                  /\ outcome' = Exception(r.error, "prompt", NoError)
    /\ UNCHANGED <<envvars, inputs, item, gw, model_calls, sent, writes, stdout, progress, nvars>>

\* lines 164-175: one item up to the call of summarize_custom
main_loop_item ==
    /\ mode = "cli" /\ pc = "loop" /\ idx <= Len(inputs)
    /\ LET video_url == normalize_video_url(inputs[idx])
           video_id  == video_id_of(video_url, idx)
           total     == Len(inputs)
       IN /\ item' = [video_url |-> video_url, video_id |-> video_id,
                      prompt |-> render_prompt(resolved.prompt_template, Meta(video_url))]
          /\ progress' = IF total <= 1 THEN progress
                         ELSE Append(progress, [index |-> idx, total |-> total,
                                                filled |-> Filled(idx, total), video_id |-> video_id])
          /\ sent' = Append(sent, [idx |-> idx, video_url |-> video_url])
    /\ gw' = gemini_json_enter
    /\ pc' = "gateway"
    /\ UNCHANGED <<envvars, inputs, idx, resolved, model_calls, reads, dirs, writes, stdout, outcome, nvars>>

\* line 164: the inputs are used up, main returns
main_done ==
    /\ mode = "cli" /\ pc = "loop" /\ idx > Len(inputs)
    /\ pc' = "exit"
    /\ outcome' = Returned
    /\ UNCHANGED <<envvars, inputs, idx, resolved, item, gw, histvars, dirs, writes, stdout, progress, nvars>>

\* lines 177-189: the payload goes to its sink (a file of the output directory,
\* standard output, or the one output file, written as the path itself with no
\* name under it); a single output file ends the loop
main_write ==
    /\ mode = "cli" /\ pc = "gateway" /\ gw.pc = "returned"
    /\ LET s == sink(args)
       IN /\ CASE s.to = "outdir" ->
                    /\ writes' = Append(writes, [dir |-> args.outdir, name |-> item.video_id,
                                                 text |-> gw.result, idx |-> idx])
                    /\ stdout' = stdout
                    /\ dirs' = dirs
               [] s.to = "stdout" ->
                    /\ stdout' = Append(stdout, gw.result)
                    /\ writes' = writes
                    /\ dirs' = dirs
               [] OTHER ->
                    /\ writes' = Append(writes, [dir |-> args.out, name |-> NoneText,
                                                 text |-> gw.result, idx |-> idx])
                    /\ stdout' = stdout
                    /\ dirs' = dirs \cup {"parent"}
          /\ IF s.go_on
             THEN pc' = "loop" /\ idx' = idx + 1 /\ outcome' = outcome
             ELSE pc' = "exit" /\ idx' = idx /\ outcome' = Returned
    /\ UNCHANGED <<envvars, inputs, resolved, item, gw, histvars, progress, nvars>>

main_gateway_error_caught ==
    /\ mode = "cli" /\ pc = "gateway" /\ gw.pc = "raised"
    /\ pc' = "loop"
    /\ idx' = idx + 1
    /\ UNCHANGED <<envvars, inputs, resolved, item, gw, histvars, outvars, nvars>>

\* line 175: the RuntimeError of gemini_json is not caught
main_gateway_error ==
    /\ mode = "cli" /\ pc = "gateway" /\ gw.pc = "raised"
    /\ pc' = "exit"
    /\ outcome' = Exception(gw.error.type, "gemini_json", gw.error.cause)
    /\ UNCHANGED <<envvars, inputs, idx, resolved, item, gw, histvars, dirs, writes, stdout, progress, nvars>>

\* ------------------------------------------------------------------------
\* gemini.py: the steps of gemini_json
\* ------------------------------------------------------------------------
\* lines 47-50: the model call of this attempt answers
gemini_json_success ==
    /\ pc = "gateway" /\ gw.pc = "calling" /\ loop_continues(gw)
    /\ \E text \in ModelTexts : gw' = on_success(gw, text)
    /\ model_calls' = model_calls + 1
    /\ UNCHANGED <<envvars, pc, inputs, idx, resolved, item, sent, reads, outvars, nvars>>

\* lines 47-53: the model call of this attempt raises, then backoff_sleep
gemini_json_failure ==
    /\ pc = "gateway" /\ gw.pc = "calling" /\ loop_continues(gw)
    /\ \E rnd \in Randoms :
          gw' = [on_failure(gw) EXCEPT !.delay = backoff_sleep(gw.attempt, rnd)]
    /\ model_calls' = model_calls + 1
    /\ UNCHANGED <<envvars, pc, inputs, idx, resolved, item, sent, reads, outvars, nvars>>

\* line 55: the loop is over without a return
gemini_json_exhausted ==
    /\ pc = "gateway" /\ gw.pc = "calling" /\ ~loop_continues(gw)
    /\ gw' = on_exhausted(gw)
    /\ UNCHANGED <<envvars, pc, inputs, idx, resolved, item, histvars, outvars, nvars>>

\* ------------------------------------------------------------------------
\* webapp.py: POST /api/summarize and POST /summarize
\* ------------------------------------------------------------------------
\* str(payload.get(key, default))
Field(p, key, default) == IF p[key] = NoneText THEN default ELSE p[key]

\* lines 181-186: the 400 answer, or None when the request is accepted
api_validation(p) ==
    IF ~IsDict(p.schema) THEN "schema must be a JSON object"
    ELSE IF normalize_video_url(Strip(Field(p, "video_input", <<>>))) = <<>>
    THEN "Provide a YouTube URL or video id."
    ELSE None

\* lines 176-193: summarize_api up to the call of summarize_custom
summarize_api_begin ==
    /\ mode = "api" /\ pc = "main"
    /\ LET video_url == normalize_video_url(Strip(Field(args, "video_input", <<>>)))
           prompt    == Field(args, "prompt", SHARED_VIDEO_PROMPT)
           bad       == api_validation(args)
       IN IF bad # None
          THEN /\ pc' = "exit"
               /\ outcome' = JSONResponse(400, [error |-> bad])
               /\ UNCHANGED <<resolved, item, gw, sent>>
          ELSE \E has_key \in BOOLEAN :
                 IF ~has_key
                 THEN /\ pc' = "exit"
                      /\ outcome' = Exception("RuntimeError", "load_api_key", NoError)
                      /\ UNCHANGED <<resolved, item, gw, sent>>
                 ELSE /\ pc' = "gateway"
                      /\ outcome' = outcome
                      /\ resolved' = [Unresolved EXCEPT !.schema = args.schema, !.base_prompt = prompt,
                                                        !.prompt_template = prompt]
                      /\ item' = [video_url |-> video_url, video_id |-> NoneText,
                                  prompt |-> render_prompt(prompt, Meta(video_url))]
                      /\ gw' = gemini_json_enter
                      /\ sent' = Append(sent, [idx |-> 0, video_url |-> video_url])
    /\ UNCHANGED <<envvars, inputs, idx, model_calls, reads, dirs, writes, stdout, progress, nvars>>

\* lines 194-199: the answer to a returned model text
api_response(raw) ==
    LET r == json_loads(raw)
    IN IF ~r.ok THEN JSONResponse(502, [error |-> "Model returned invalid JSON", raw |-> raw])
       ELSE JSONResponse(200, r.value)

summarize_api_respond ==
    /\ mode = "api" /\ pc = "gateway" /\ gw.pc = "returned"
    /\ pc' = "exit"
    /\ outcome' = api_response(gw.result)
    /\ UNCHANGED <<envvars, inputs, idx, resolved, item, gw, histvars, dirs, writes, stdout, progress, nvars>>

\* line 193: summarize_custom is called outside any try, its RuntimeError leaves
\* the handler
summarize_api_error ==
    /\ mode = "api" /\ pc = "gateway" /\ gw.pc = "raised"
    /\ pc' = "exit"
    /\ outcome' = Exception(gw.error.type, "gemini_json", gw.error.cause)
    /\ UNCHANGED <<envvars, inputs, idx, resolved, item, gw, histvars, dirs, writes, stdout, progress, nvars>>

\* lines 112-139: the inline form error, or None when the form is accepted
form_validation(p) ==
    IF normalize_video_url(p.video_input) = <<>> THEN "Provide a YouTube URL or video id."
    ELSE IF ~json_loads(p.schema_json).ok \/ ~IsDict(json_loads(p.schema_json).value)
    THEN "Invalid schema JSON"
    ELSE None

\* lines 112-147: summarize up to the call of summarize_custom
summarize_begin ==
    /\ mode = "form" /\ pc = "main"
    /\ LET video_url == normalize_video_url(args.video_input)
           bad       == form_validation(args)
       IN IF bad # None
          THEN /\ pc' = "exit"
               /\ outcome' = TemplateResponse(bad, JNull)
               /\ UNCHANGED <<resolved, item, gw, sent>>
          ELSE \E has_key \in BOOLEAN :
                 IF ~has_key
                 THEN /\ pc' = "exit"
                      /\ outcome' = Exception("RuntimeError", "load_api_key", NoError)
                      /\ UNCHANGED <<resolved, item, gw, sent>>
                 ELSE /\ pc' = "gateway"
                      /\ outcome' = outcome
                      /\ resolved' = [Unresolved EXCEPT !.schema = json_loads(args.schema_json).value,
                                                        !.base_prompt = args.prompt,
                                                        !.prompt_template = args.prompt]
                      /\ item' = [video_url |-> video_url, video_id |-> NoneText,
                                  prompt |-> render_prompt(args.prompt, Meta(video_url))]
                      /\ gw' = gemini_json_enter
                      /\ sent' = Append(sent, [idx |-> 0, video_url |-> video_url])
    /\ UNCHANGED <<envvars, inputs, idx, model_calls, reads, dirs, writes, stdout, progress, nvars>>

\* lines 146-171: every exception of the call or of json.loads becomes a form error
summarize_respond ==
    /\ mode = "form" /\ pc = "gateway" /\ gw.pc \in {"returned", "raised"}
    /\ pc' = "exit"
    /\ outcome' = IF gw.pc = "raised" \/ ~json_loads(gw.result).ok
                  THEN TemplateResponse("Summarization failed", JNull)
                  ELSE TemplateResponse(None, json_loads(gw.result).value)
    /\ UNCHANGED <<envvars, inputs, idx, resolved, item, gw, histvars, dirs, writes, stdout, progress, nvars>>

Next ==
    \/ main_start
    \/ main_load_api_key
    \/ main_resolve_schema
    \/ main_resolve_prompt
    \/ main_loop_item
    \/ main_done
    \/ main_write
    \/ main_gateway_error
    \/ gemini_json_success
    \/ gemini_json_failure
    \/ gemini_json_exhausted
    \/ summarize_api_begin
    \/ summarize_api_respond
    \/ summarize_api_error
    \/ summarize_begin
    \/ summarize_respond

Spec == Init /\ [][Next]_vars

\* ------------------------------------------------------------------------
\* The normalizer as a pure function of a video reference
\* ------------------------------------------------------------------------
MaxTail == 3

RefHeads ==
    {<<>>,
     HTTPS \o YOUTU_BE,
     HTTP \o WWW \o YOUTU_BE,
     HTTPS \o WWW \o YOUTUBE_COM \o <<"/","w","a","t","c","h">>,
     HTTP \o YOUTUBE_COM,
     HTTPS \o EXAMPLE_COM}

RefPieces == {<<"a">>, <<"/">>, <<"?","v","=">>, <<"?","t","=">>, <<"&">>, <<"#">>, <<"+">>, <<" ">>}

RefTails == UNION {[1..n -> RefPieces] : n \in 0..MaxTail}

VideoRefs == {h \o Concat(t) : h \in RefHeads, t \in RefTails}

RunIdle ==
    /\ mode = "norm"
    /\ args = None
    /\ fs = NoFiles
    /\ RunInit

NormInit ==
    /\ RunIdle
    /\ nvalue \in VideoRefs
    /\ nonce = NoneText
    /\ ntwice = NoneText
    /\ nid = NoneText
    /\ npc = "input"

NormalizeOnce ==
    /\ npc = "input"
    /\ nonce' = normalize_video_url(nvalue)
    /\ npc' = "once"
    /\ UNCHANGED <<envvars, runvars, histvars, outvars, nvalue, ntwice, nid>>

NormalizeAgain ==
    /\ npc = "once"
    /\ ntwice' = normalize_video_url(nonce)
    /\ npc' = "twice"
    /\ UNCHANGED <<envvars, runvars, histvars, outvars, nvalue, nonce, nid>>

ExtractId ==
    /\ npc = "twice"
    /\ nid' = extract_video_id(nvalue)
    /\ npc' = "id"
    /\ UNCHANGED <<envvars, runvars, histvars, outvars, nvalue, nonce, ntwice>>

NormNext == NormalizeOnce \/ NormalizeAgain \/ ExtractId

SpecNorm == NormInit /\ [][NormNext]_vars

\* ------------------------------------------------------------------------
\* Claims
\* ------------------------------------------------------------------------
\* the CLI run has composed the prompt of an item
PromptComposed == mode = "cli" /\ item.prompt # NoneText

\* the source the stated precedence picks: --prompt, then --prompt-file, then
\* the preset's stored prompt, then DEFAULT_PROMPT
StatedPromptSource ==
    IF Truthy(args.prompt) THEN args.prompt
    ELSE IF Given(args.prompt_file) /\ Strip(fs.prompt_file) # <<>> THEN fs.prompt_file
    ELSE IF PyTruthy(resolved.preset_prompt) THEN resolved.preset_prompt.v
    ELSE DEFAULT_PROMPT

\* C1: the composed prompt starts with the content of the highest-precedence
\* source that is present and non-empty, in the order --prompt, --prompt-file,
\* preset prompt, DEFAULT_PROMPT; with --prompt and --prompt-file both given
\* it starts with the --prompt text.
C1_PromptPrecedence ==
    PromptComposed => StartsWith(item.prompt, Strip(StatedPromptSource))

\* the CLI run has resolved its schema and gone on
SchemaResolved == mode = "cli" /\ pc \in {"prompt", "loop", "gateway"}

\* the CLI run ended inside schema resolution
SchemaRaised ==
    mode = "cli" /\ pc = "exit" /\ outcome.kind = "exception" /\ outcome.detail.at = "schema"

NoSchemaOption == ~Given(args.schema_json) /\ ~Given(args.schema)

\* an object with required string `summary` and required string-array `keyword`
HardcodedShape(s) ==
    /\ IsDict(s)
    /\ Get(s, "type") = JStr(<<"object">>)
    /\ Get(s, "required") = JArr(<<JStr(<<"summary">>), JStr(<<"keyword">>)>>)
    /\ Get(Get(Get(s, "properties"), "summary"), "type") = JStr(<<"string">>)
    /\ Get(Get(Get(s, "properties"), "keyword"), "type") = JStr(<<"array">>)
    /\ Get(Get(Get(Get(s, "properties"), "keyword"), "items"), "type") = JStr(<<"string">>)

\* C2: the CLI chooses its schema by the precedence inline --schema-json, then
\* --schema file, then the default preset's schema, then the hardcoded fallback:
\* with --schema-json given the inline schema is used and the schema file is
\* never read; with only --schema the file decides and the preset is never
\* read; with neither, the preset's schema is used when it has one, and when no
\* preset loads the schema is the hardcoded object (required string `summary`,
\* required string-array `keyword`).
C2_SchemaPrecedence ==
    /\ SchemaResolved \/ SchemaRaised =>
          /\ Given(args.schema_json) => reads \cap {"schema_file", "preset"} = {}
          /\ ~Given(args.schema_json) /\ Given(args.schema) => "preset" \notin reads
    /\ SchemaResolved /\ Given(args.schema_json) =>
          /\ json_loads(args.schema_json).ok
          /\ resolved.schema = json_loads(args.schema_json).value
    /\ SchemaResolved /\ ~Given(args.schema_json) /\ Given(args.schema) =>
          /\ json_loads(fs.schema_file).ok
          /\ resolved.schema \in {json_loads(fs.schema_file).value,
                                  Get(json_loads(fs.schema_file).value, "schema")}
    /\ SchemaResolved /\ NoSchemaOption /\ load_preset(fs.preset).ok
          /\ IsDict(load_preset(fs.preset).value)
          /\ PyTruthy(Get(load_preset(fs.preset).value, "schema")) =>
          resolved.schema = Get(load_preset(fs.preset).value, "schema")
    /\ (SchemaResolved \/ SchemaRaised) /\ NoSchemaOption /\ ~load_preset(fs.preset).ok =>
          /\ SchemaResolved
          /\ HardcodedShape(resolved.schema)
          /\ resolved.schema = FallbackSchema

\* C2 is reached: --schema-json and --schema are both given and the schema is
\* resolved from the inline text while the file holds another schema
C2_InlineBeatsFile ==
    /\ SchemaResolved
    /\ Given(args.schema_json) /\ Given(args.schema)
    /\ json_loads(fs.schema_file).ok
    /\ resolved.schema = InlineSchema
    /\ resolved.schema # json_loads(fs.schema_file).value

\* C3: when the model call fails N times and then succeeds, 0 <= N <
\* max_retries, gemini_json returns the text of the successful call after
\* exactly N+1 model calls and N backoff waits, it gives up only after
\* max_retries failures, and once it has returned no model call and no wait
\* follows unless a caller starts a new gemini_json call.
C3_RetryThenSuccess ==
    /\ [](gw.pc = "returned" =>
            /\ gw.result \in ModelTexts
            /\ gw.fails < max_retries
            /\ gw.calls = gw.fails + 1
            /\ gw.waits = gw.fails)
    /\ [](gw.pc = "raised" => gw.fails >= max_retries)
    /\ [][gw.pc = "returned" /\ Len(sent') = Len(sent) =>
            model_calls' = model_calls /\ gw' = gw]_vars

\* C3 is reached: a call returned after failed attempts
C3_ReturnedAfterFailures == gw.pc = "returned" /\ gw.fails = max_retries - 1

\* C4: when the model call always fails, gemini_json calls the model exactly
\* max_retries (6) times and then raises a RuntimeError that carries the error
\* of the last attempt; no caller retries it: after the raise there is no
\* further model call and no further gemini_json call, and the caller ends
\* without a result.
C4_ExhaustionRaises ==
    /\ [](gw.pc = "raised" =>
            /\ gw.calls = max_retries
            /\ gw.calls = 6
            /\ gw.fails = max_retries
            /\ gw.error.type = "RuntimeError"
            /\ gw.error.cause = ErrorOf(max_retries - 1))
    /\ [](gw.pc = "raised" /\ pc = "exit" =>
            /\ outcome.kind \in {"exception", "html"}
            /\ outcome.kind = "exception" => outcome.detail.cause = ErrorOf(max_retries - 1)
            /\ outcome.kind = "html" => outcome.detail.error = "Summarization failed")
    /\ [][gw.pc = "raised" => model_calls' = model_calls /\ sent' = sent /\ gw' = gw
                              /\ writes' = writes /\ stdout' = stdout]_vars

\* C4 is reached: the CLI batch ended on the RuntimeError of its second item
C4_BatchEndedOnExhaustion ==
    mode = "cli" /\ pc = "exit" /\ gw.pc = "raised" /\ Len(sent) = 2 /\ Len(inputs) = 2

\* the CLI writes to one named output file: no --outdir, --out not "-"
SingleFileSink == mode = "cli" /\ ~Given(args.outdir) /\ args.out # "-"

\* the CLI run entered its batch loop and has ended
LoopEnded ==
    /\ mode = "cli" /\ pc = "exit"
    /\ \/ outcome.kind = "returned"
       \/ outcome.kind = "exception" /\ outcome.detail.at = "gemini_json"

\* C5 as stated: with a single output file and at least one input, exactly one
\* model call is made, exactly one output file is written and no other input
\* is sent to the model.
C5_ExactlyOneModelCall ==
    SingleFileSink /\ LoopEnded /\ Len(inputs) >= 1 =>
        model_calls = 1 /\ Len(writes) = 1 /\ Len(sent) = 1

\* C5 amended: with a single output file, only the first input is ever sent to
\* the model, in one gemini_json call of at most max_retries model calls; when
\* that call returns, its text is written to the one output file and the run
\* ends with exactly one file written and the other inputs untouched; when it
\* raises, nothing is written.
C5_SingleFileStopsAfterFirst ==
    SingleFileSink =>
        /\ Len(sent) <= 1
        /\ \A i \in 1..Len(sent) : sent[i].idx = 1
        /\ model_calls = gw.calls /\ model_calls <= max_retries
        /\ Len(writes) <= 1 /\ stdout = <<>>
        /\ idx <= 1
        /\ LoopEnded /\ outcome.kind = "returned" =>
              /\ Len(inputs) >= 1
              /\ Len(sent) = 1 /\ model_calls >= 1
              /\ Len(writes) = 1
              /\ writes[1].dir = args.out /\ writes[1].text = gw.result /\ writes[1].idx = 1
        /\ LoopEnded /\ outcome.kind = "exception" =>
              writes = <<>> /\ model_calls = max_retries

\* C5 is reached: a batch of several inputs ended after its first item was
\* written to the single output file
C5_StoppedWithInputsLeft ==
    /\ SingleFileSink /\ LoopEnded /\ outcome.kind = "returned"
    /\ Len(inputs) >= 2 /\ Len(writes) = 1

\* --input-file with neither --outdir nor a named --out
BatchWithoutSink ==
    mode = "cli" /\ Given(args.input_file) /\ ~Given(args.outdir) /\ args.out = "-"

\* C6: a run whose input comes from --input-file with neither --outdir nor a
\* non-stdout --out is rejected before any model call: it never leaves the
\* start of main except by SystemExit, no model call is made, nothing is sent,
\* written or printed.
C6_BatchNeedsSink ==
    BatchWithoutSink =>
        /\ pc \in {"main", "exit"}
        /\ pc = "exit" => outcome.kind = "SystemExit"
        /\ model_calls = 0 /\ sent = <<>> /\ gw.pc = "idle"
        /\ writes = <<>> /\ stdout = <<>> /\ dirs = {}

\* C6 is reached: a batch file with inputs and no sink was rejected
C6_BatchRejected ==
    /\ BatchWithoutSink /\ pc = "exit" /\ Len(inputs) = 2
    /\ outcome.kind = "SystemExit"
    /\ outcome.detail = "Batch mode requires --outdir to write results per video."

\* C7: normalize_video_url is idempotent on every accepted video reference:
\* normalizing the normalized reference gives the normalized reference.
C7_NormalizeIdempotent == npc \in {"twice", "id"} => ntwice = nonce

\* the default preset file is absent, is no valid JSON, holds no object, or
\* holds an object without a usable `schema`
PresetUnusable ==
    \/ ~load_preset(fs.preset).ok
    \/ ~IsDict(load_preset(fs.preset).value)
    \/ ~PyTruthy(Get(load_preset(fs.preset).value, "schema"))

\* C8: with no --schema-json and no --schema, whatever the default preset file
\* holds (absent, invalid JSON, JSON that is no object, an object without a
\* usable schema), schema resolution completes without raising and yields the
\* hardcoded fallback schema.
C8_PresetNeverAborts ==
    (SchemaResolved \/ SchemaRaised) /\ NoSchemaOption /\ PresetUnusable =>
        SchemaResolved /\ resolved.schema = FallbackSchema

\* the handler of POST /api/summarize has ended, with an API key configured
ApiEnded ==
    /\ mode = "api" /\ pc = "exit"
    /\ ~(outcome.kind = "exception" /\ outcome.detail.at = "load_api_key")

\* C9: POST /api/summarize answers with the parsed JSON of the model output, a
\* structured error with status 400, or a structured error with status 502; a
\* gateway that failed after its retries and a model text that is no JSON both
\* give status 502.
C9_ApiAnswers ==
    ApiEnded =>
        /\ outcome.kind = "http"
        /\ outcome.detail.status \in {200, 400, 502}
        /\ outcome.detail.status = 400 => gw.pc = "idle"
        /\ gw.pc = "raised" => outcome.detail.status = 502
        /\ gw.pc = "returned" /\ ~json_loads(gw.result).ok => outcome.detail.status = 502
        /\ gw.pc = "returned" /\ json_loads(gw.result).ok =>
              outcome.detail.status = 200 /\ outcome.detail.body = json_loads(gw.result).value

\* the schema text does not parse, or parses to something that is no object
BadSchemaText(text) == ~json_loads(text).ok \/ ~IsDict(json_loads(text).value)

\* an input error: no video reference or one that is empty after trimming, an
\* inline schema that does not parse, a schema that is no JSON object, or a
\* batch without an output sink
InputError ==
    \/ /\ mode = "cli"
       /\ \/ load_inputs(args, fs) = <<>>
          \/ \E i \in 1..Len(load_inputs(args, fs)) : Strip(load_inputs(args, fs)[i]) = <<>>
          \/ Given(args.schema_json) /\ BadSchemaText(args.schema_json)
          \/ BatchWithoutSink
    \/ /\ mode = "api"
       /\ \/ Strip(Field(args, "video_input", <<>>)) = <<>>
          \/ ~IsDict(args.schema)
    \/ /\ mode = "form"
       /\ \/ Strip(args.video_input) = <<>>
          \/ BadSchemaText(args.schema_json)

\* the run or request ended in an error shown to the caller
SurfacedAsError ==
    \/ outcome.kind \in {"SystemExit", "exception"}
    \/ outcome.kind = "http" /\ outcome.detail.status = 400
    \/ outcome.kind = "html" /\ outcome.detail.error # None

\* C10: on an input error (empty video reference, inline schema that does not
\* parse, schema that is no JSON object, missing batch sink) the CLI and the
\* web handlers make no model call and end in an error shown to the caller.
C10_InputErrorsNeverReachModel ==
    InputError =>
        /\ model_calls = 0
        /\ pc = "exit" => SurfacedAsError

\* C10 restricted to the web handlers, where it holds
WebInputErrorsNeverReachModel ==
    InputError /\ mode \in {"api", "form"} =>
        /\ model_calls = 0 /\ sent = <<>> /\ gw.pc = "idle"
        /\ pc = "exit" => SurfacedAsError

\* the number of results the CLI run has put out, to files or standard output
Outputs == Len(writes) + Len(stdout)

\* the CLI run ended on the RuntimeError of gemini_json
GatewayHalted ==
    /\ mode = "cli" /\ pc = "exit"
    /\ outcome.kind = "exception" /\ outcome.detail.at = "gemini_json"

\* C11: in the CLI batch loop a gateway failure on item k is not caught: it ends
\* the run, items k+1..n are never sent to the model, item k puts out nothing
\* and the outputs of items 1..k-1 stay as they were. Items are processed in
\* input order, and the result of each item is put out before the model is
\* called for the next one.
C11_GatewayFailureHaltsBatch ==
    /\ [](mode = "cli" =>
            /\ \A i \in 1..Len(sent) :
                  sent[i].idx = i /\ sent[i].video_url = normalize_video_url(inputs[i])
            /\ \A i \in 1..Len(writes) : writes[i].idx = i
            /\ pc = "gateway" => Len(sent) = idx /\ Outputs = idx - 1
            /\ pc = "loop" => Len(sent) = idx - 1 /\ Outputs = idx - 1)
    /\ [](mode = "cli" /\ gw.pc = "raised" /\ pc = "exit" => GatewayHalted)
    /\ [](GatewayHalted =>
            /\ gw.pc = "raised"
            /\ outcome.detail.type = "RuntimeError"
            /\ Len(sent) = idx /\ idx <= Len(inputs)
            /\ Outputs = idx - 1)
    /\ [][mode = "cli" /\ gw.pc = "raised" =>
            /\ pc' = "exit"
            /\ sent' = sent /\ model_calls' = model_calls /\ idx' = idx
            /\ writes' = writes /\ stdout' = stdout]_vars
    /\ [][mode = "cli" /\ model_calls' # model_calls =>
            Outputs = Len(sent) - 1 /\ gw.attempt < max_retries]_vars
    /\ [][mode = "cli" =>
            /\ Len(writes') >= Len(writes) /\ SubSeq(writes', 1, Len(writes)) = writes
            /\ Len(stdout') >= Len(stdout) /\ SubSeq(stdout', 1, Len(stdout)) = stdout]_vars

\* C11 is reached: a batch of two inputs with an output directory ended on the
\* failure of its first item, the second item never sent
C11_HaltedWithItemsLeft ==
    /\ GatewayHalted /\ Given(args.outdir)
    /\ Len(inputs) = 2 /\ idx = 1 /\ Len(sent) = 1 /\ writes = <<>>

\* the reference, trimmed, starts with a scheme and its host is neither a
\* short-link host nor a canonical host
OtherHostRef(value) ==
    /\ HasScheme(Strip(value))
    /\ urlparse(Strip(value)).netloc \notin ShortHosts \cup CanonicalHosts

\* the reference, trimmed, is a canonical-host URL whose query has no `v`
CanonicalRefWithoutV(value) ==
    /\ HasScheme(Strip(value))
    /\ urlparse(Strip(value)).netloc \in CanonicalHosts
    /\ QueryV(urlparse(Strip(value)).query) = <<>>

\* C13: for a scheme-prefixed reference whose host is neither a short-link host
\* nor a canonical host, and for a canonical-host URL without a `v` parameter,
\* extract_video_id returns the reference with surrounding whitespace removed.
C13_AmbiguousIdIsRawTrimmed ==
    npc = "id" /\ (OtherHostRef(nvalue) \/ CanonicalRefWithoutV(nvalue)) =>
        nid = Strip(nvalue)

\* C13 restricted to the hosts that are neither short-link nor canonical, where
\* it holds
OtherHostIdIsRawTrimmed ==
    npc = "id" /\ OtherHostRef(nvalue) => nid = Strip(nvalue) /\ nid # <<>>

EndsWith(s, t) == Len(s) >= Len(t) /\ SubSeq(s, Len(s) - Len(t) + 1, Len(s)) = t

\* the last lines of the block with the strict extraction directives
SpecializedTail == <<"Now extract:", "\n", "- who the person is (if stated) ...", "\n">>

\* the last line of the generic block
GenericTail == <<"Return ONLY valid JSON that matches the provided schema.", "\n">>

\* the resolved template is, whitespace around it aside, SHARED_VIDEO_PROMPT
SharedTemplateResolved == Strip(resolved.base_prompt) = Strip(SHARED_VIDEO_PROMPT)

\* C12: the prompt the CLI composes for an item ends with the block of strict
\* extraction directives ("Now extract: ...") when the resolved template,
\* trimmed, is SHARED_VIDEO_PROMPT, and with the generic block ("Return ONLY
\* valid JSON that matches the provided schema.") for every other template.
C12_MetadataBlockByTemplate ==
    PromptComposed =>
        IF SharedTemplateResolved
        THEN EndsWith(item.prompt, SpecializedTail)
        ELSE EndsWith(item.prompt, GenericTail)

\* what main does: whatever the template, the generic block is appended
GenericBlockAlways ==
    PromptComposed =>
        /\ item.prompt = render_prompt(resolved.base_prompt, Meta(item.video_url))
        /\ EndsWith(item.prompt, GenericTail) /\ ~EndsWith(item.prompt, SpecializedTail)
        /\ resolved.base_prompt # SHARED_VIDEO_PROMPT

\* the delay before jitter of the wait after the failed attempt k
BaseDelay(k) == MinOf({cap, base * 2^k})

\* C14: in gemini_json the wait after the failed attempt k has the base delay
\* min(cap, base * 2^k), base = 1.0 s and cap = 20.0 s, times a jitter factor
\* in [0.7, 1.3]; it lies within [0.7 * base * 2^k, 1.3 * base * 2^k] capped at
\* cap, so it never exceeds cap; there is one wait per failed attempt, and
\* every wait is followed by another model attempt.
C14_BackoffBoundedBeforeRetry ==
    gw.waits > 0 =>
        /\ base = 1000 /\ cap = 20000
        /\ gw.waits = gw.fails
        /\ 10 * gw.delay >= 7 * BaseDelay(gw.attempt - 1)
        /\ 10 * gw.delay <= 13 * BaseDelay(gw.attempt - 1)
        /\ gw.delay <= cap
        /\ gw.pc = "calling" => loop_continues(gw)

\* what gemini_json does: one wait after every failed attempt, the last one
\* included, each within 0.7 and 1.3 times min(cap, base * 2^k)
BackoffJitteredAfterEveryFailure ==
    /\ gw.waits = gw.fails /\ gw.fails <= max_retries
    /\ gw.waits > 0 =>
          /\ 10 * gw.delay >= 7 * BaseDelay(gw.attempt - 1)
          /\ 10 * gw.delay <= 13 * BaseDelay(gw.attempt - 1)
          /\ 10 * gw.delay <= 13 * cap
    /\ gw.pc = "raised" => gw.waits = max_retries

====
